---- MODULE Spec2Model ----
(***************************************************************************)
(* Model of jetstream_hugo/plots.py: level inference (create_levels),      *)
(* palette derivation (make_transparent), style broadcasting (doubleit),   *)
(* coordinate set-up (setup_lon_lat) and the drawing methods of            *)
(* Clusterplot (add_contour, setup_contourf, add_contourf, add_stippling,  *)
(* add_any_contour_from_mask, cluster_on_fig).                             *)
(*                                                                         *)
(* The program is single-threaded: a caller makes one call after another   *)
(* on the same Clusterplot.  A call is one action; it records its          *)
(* arguments in `call`, its outcome (returned value or raised exception)   *)
(* in `ret`, and its drawing in `axes`, `cbar` and `artists`.              *)
(*                                                                         *)
(* Python's None is the empty tuple <<>> and a present optional value v is *)
(* the 1-tuple <<v>>.  Python indices are 0-based; where a Python list is  *)
(* a TLA+ sequence, element k of the list is element k + 1 of the sequence.*)
(***************************************************************************)
EXTENDS Integers, Sequences, FiniteSets, TLC

VARIABLES
    pc,       \* position of the caller: "call" before the call, "return" after
    call,     \* the arguments of the call
    ret,      \* the outcome of the call: [exc, val]
    grid,     \* [nrow, ncol] of the Clusterplot
    axes,     \* self.axes: for every panel, the sequence of drawings on it
    cbar,     \* self.cbar: <<>> or <<colorbar>>
    artists,  \* figure-level artists (fig.add_artist)
    stdout,   \* what print() wrote
    frames    \* the calls of add_contour and add_stippling made so far, with
              \* the parameters they received and their local lists

vars == <<pc, call, ret, grid, axes, cbar, artists, stdout, frames>>

----------------------------------------------------------------------------
(* Bounds *)

MaxLength == 5        \* longest target length given to doubleit
MaxList == 4          \* longest override list given to doubleit
MaxNlev == 5          \* largest nlev given to make_transparent
MaxFields == 2        \* longest to_plot list
GridSize == 2         \* grid points of a field
MaxLevelSeq == 4      \* longest explicit level sequence
MaxLabs == 4          \* most layout points given to cluster_on_fig
MaxPaths == 2         \* most iso-contour paths found for one label
MaxPlotFields == 2    \* longest to_plot list given to a drawing method
MaxTime == 2          \* time steps of the field given with a mask
MaxGroups == 2        \* most columns (groups) of a mask
MaxAmplitude == 5     \* largest K of a field uniform over -K..K
MaxUniformFields == 2 \* most fields of uniformly distributed values

----------------------------------------------------------------------------
(* Python helpers *)

Min(a, b) == IF a <= b THEN a ELSE b
Max(a, b) == IF a >= b THEN a ELSE b
Abs(a) == IF a < 0 THEN -a ELSE a

\* n * [x]: a list of n copies of x (empty when n <= 0)
Repeat(x, n) == [i \in 1..n |-> x]


\* The 0-based indices selected by the slice [lo:hi] of a list of length n;
\* an absent bound is <<>>, a negative bound counts from the end.
SliceBound(b, n) == IF b < 0 THEN Max(b + n, 0) ELSE Min(b, n)
PySlice(lo, hi, n) ==
    LET l == IF lo = <<>> THEN 0 ELSE SliceBound(lo[1], n)
        h == IF hi = <<>> THEN n ELSE SliceBound(hi[1], n)
    IN  {k \in 0..(n - 1) : l <= k /\ k < h}

\* colorlist[sl, -1] = v: the alpha channel of the entries whose 0-based index
\* is in sl becomes v
SetAlpha(a, sl, v) ==
    [i \in 1..Len(a) |-> IF (i - 1) \in sl THEN [a[i] EXCEPT !.alpha = v] ELSE a[i]]

Returned(v) == [exc |-> "", val |-> v]
Raised(e) == [exc |-> e, val |-> <<>>]

\* A call of a module-level function: there is no Clusterplot.
NoDrawing == /\ grid = [nrow |-> 0, ncol |-> 0]
             /\ axes = <<>>
             /\ cbar = <<>>
             /\ artists = <<>>
             /\ stdout = <<>>
             /\ frames = <<>>

\* A panel of self.axes: the contours drawn on it in drawing order, its title
\* (<<>> when it has none) and the number of gridliners added to it.
NewPanel == [drawn |-> <<>>, title |-> <<>>, gridlines |-> 0]

\* A coordinate array (the values of a lon or lat coordinate), by its name
Coords(name) == [kind |-> "coords", name |-> name]

----------------------------------------------------------------------------
(* doubleit *)

\* A style value (a colour or a line style) and the override argument
\* `thing`: a string, a list of style values, or None.
Styles == {"dashed", "solid", "red"}
Defaults == {"black", "dotted"}

SeqsUpTo(S, n) == UNION {[1..k -> S] : k \in 0..n}

NoThing == [tag |-> "none", str |-> "", list |-> <<>>]
StrThing(x) == [tag |-> "str", str |-> x, list |-> <<>>]
ListThing(l) == [tag |-> "list", str |-> "", list |-> l]

Things == {StrThing(x) : x \in Styles}
          \cup {ListThing(l) : l \in SeqsUpTo(Styles, MaxList)}
          \cup {NoThing}

IntHalfUp(a) == (a + 1) \div 2

\* int(a / 2): float division, then truncation toward zero
IntHalf(a) == IF a >= 0 THEN a \div 2 ELSE -((-a) \div 2)

doubleit(thing, length, default) ==
    IF thing.tag = "str"
    THEN Returned(Repeat(thing.str, length))
    ELSE IF thing.tag = "list"
    THEN LET lover2 == IntHalf(length)
         IN  IF Len(thing.list) = 3
             THEN Returned(Repeat(thing.list[1], lover2)
                           \o Repeat(thing.list[2], length % 2)
                           \o Repeat(thing.list[3], lover2))
             ELSE IF Len(thing.list) < 2
             THEN Raised("IndexError")   \* thing[0] or thing[1] does not exist
             ELSE Returned(Repeat(thing.list[1], lover2)
                           \o Repeat(default, length % 2)
                           \o Repeat(thing.list[2], lover2))
    ELSE Returned(Repeat(default, length))

DoubleitCalls ==
    [op : {"doubleit"}, thing : Things, length : 0..MaxLength, default : Defaults]

InitDoubleit ==
    /\ pc = "call"
    /\ call \in DoubleitCalls
    /\ ret = Returned(<<>>)
    /\ NoDrawing

Doubleit ==
    /\ pc = "call"
    /\ call.op = "doubleit"
    /\ ret' = doubleit(call.thing, call.length, call.default)
    /\ pc' = "return"
    /\ UNCHANGED <<call, grid, axes, cbar, artists, stdout, frames>>

NextDoubleit == Doubleit

SpecDoubleit == InitDoubleit /\ [][NextDoubleit]_vars

\* The list made of n copies of a, then m copies of b, then n copies of c,
\* stated element by element.
IsThreePart(r, n, m, a, b, c) ==
    /\ Len(r) = 2 * n + m
    /\ \A i \in 1..Len(r) :
          r[i] = (IF i <= n THEN a ELSE IF i <= n + m THEN b ELSE c)

\* C5: for a 3-element override list [a, b, c] and a target length L >= 0,
\* doubleit returns a list of length exactly L made of floor(L/2) copies of
\* a, then (L mod 2) copies of b, then floor(L/2) copies of c; for a
\* 2-element list [a, c] the same holds with the default in place of b.
DoubleitThreePart ==
    (pc = "return" /\ call.op = "doubleit" /\ call.thing.tag = "list"
        /\ Len(call.thing.list) \in {2, 3})
    => LET l == call.thing.list
           L == call.length
           mid == IF Len(l) = 3 THEN l[2] ELSE call.default
       IN  /\ ret.exc = ""
           /\ Len(ret.val) = L
           /\ IsThreePart(ret.val, L \div 2, L % 2, l[1], mid, l[Len(l)])

DoubleitThreePartWitness ==
    /\ pc = "return"
    /\ call.op = "doubleit"
    /\ call.thing.tag = "list"
    /\ call.thing.list = <<"dashed", "red", "solid">>
    /\ call.length = 5
    /\ ret.val = <<"dashed", "dashed", "red", "solid", "solid">>

----------------------------------------------------------------------------
(* make_transparent *)

\* A continuous colormap is [N, alpha]: its number of colours and the alpha
\* its colours carry.  Alpha is in hundredths (100 is opaque).  A sampled
\* colour is [at, alpha]: `at` = <<k, n>> is the sample point k / n of the
\* colormap (np.linspace(0, 1, n + 1)[k]).  A direction is <<-1>>, <<0>>,
\* <<1>> or <<>> (None).
Cmaps == [N : {2, 4}, alpha : {100, 70}]
AlphaOthers == {100, 30}
Directions == {<<-1>>, <<0>>, <<1>>, <<>>}

FloorHalf(n) == n \div 2

\* int(np.ceil(nlev / 2))
CeilHalf(n) == (n + 1) \div 2

make_transparent(cmap, nlev, alpha_others, n_transparent, direction) ==
    LET nl == IF nlev = <<>> THEN cmap.N ELSE nlev[1]
        len == nl + (IF direction = <<0>> THEN 1 ELSE 0)
        colorlist == [k \in 1..len |-> [at |-> <<k - 1, len - 1>>, alpha |-> cmap.alpha]]
        n == n_transparent
    IN  IF direction = <<0>>
        THEN LET midpoint == CeilHalf(nl)
                 c1 == SetAlpha(colorlist,
                                PySlice(<<midpoint - n + 1>>, <<midpoint + n>>, len), 0)
                 c2 == SetAlpha(c1, PySlice(<<midpoint + n>>, <<>>, len), alpha_others)
             IN  SetAlpha(c2, PySlice(<<>>, <<midpoint - n + 1>>, len), alpha_others)
        ELSE IF direction = <<1>>
        THEN LET c1 == SetAlpha(colorlist, PySlice(<<>>, <<n>>, len), 0)
             IN  SetAlpha(c1, PySlice(<<n>>, <<>>, len), alpha_others)
        ELSE LET c1 == SetAlpha(colorlist, PySlice(<<-n>>, <<>>, len), 0)
             IN  SetAlpha(c1, PySlice(<<>>, <<-n>>, len), alpha_others)

MakeTransparentCalls ==
    [op : {"make_transparent"}, cmap : Cmaps,
     nlev : {<<>>} \cup {<<k>> : k \in 1..MaxNlev},
     alpha_others : AlphaOthers, n_transparent : 0..MaxNlev,
     direction : Directions]

InitTransparent ==
    /\ pc = "call"
    /\ call \in MakeTransparentCalls
    /\ ret = Returned(<<>>)
    /\ NoDrawing

MakeTransparent ==
    /\ pc = "call"
    /\ call.op = "make_transparent"
    /\ ret' = Returned(make_transparent(call.cmap, call.nlev, call.alpha_others,
                                        call.n_transparent, call.direction))
    /\ pc' = "return"
    /\ UNCHANGED <<call, grid, axes, cbar, artists, stdout, frames>>

NextTransparent == MakeTransparent

SpecTransparent == InitTransparent /\ [][NextTransparent]_vars

\* A returned call of make_transparent inside the domain of C4.
TransparentInDomain ==
    /\ pc = "return"
    /\ call.op = "make_transparent"
    /\ call.nlev # <<>>
    /\ call.direction # <<>>
    /\ 1 <= call.n_transparent
    /\ call.n_transparent <= call.nlev[1]

\* The entries of colormap r with 0-based index in lo..hi have alpha 0 and all
\* other entries have alpha a.
ZeroBand(r, lo, hi, a) ==
    \A k \in 0..(Len(r) - 1) :
        r[k + 1].alpha = (IF lo <= k /\ k <= hi THEN 0 ELSE a)

----------------------------------------------------------------------------
(* setup_lon_lat *)

\* A field is [dtype, vals, lon, lat]: its dtype ("bool" or "float"), its
\* values in grid order, and its lon and lat coordinates: <<>> when the
\* field carries none (a bare array, or a DataArray without that coordinate).
\* A coordinate array is named by a string.
MissingCoords == "Either provide lon / lat or make to_plot items dataArrays"

NeedsCoordsBoth(lon, lat) == lon = <<>> /\ lat = <<>>

\* lon is None or lat is None
NeedsCoords(lon, lat) == lon = <<>> \/ lat = <<>>

\* The outcome of setup_lon_lat and what it printed.  The returned pair holds
\* lon and lat as they are: <<x>> for the array x, <<>> for None.
setup_lon_lat(to_plot, lon, lat) ==
    IF NeedsCoords(lon, lat)
    THEN IF Len(to_plot) = 0
         THEN [out |-> Raised("IndexError"), printed |-> <<>>]
         ELSE IF to_plot[1].lon = <<>> \/ to_plot[1].lat = <<>>
         THEN [out |-> Raised("AttributeError"), printed |-> <<MissingCoords>>]
         ELSE [out |-> Returned(<<to_plot[1].lon, to_plot[1].lat>>),
               printed |-> <<>>]
    ELSE [out |-> Returned(<<lon, lat>>), printed |-> <<>>]

CoordFields ==
    [dtype : {"float"}, vals : {<<1>>},
     lon : {<<>>, <<Coords("field.lon")>>}, lat : {<<>>, <<Coords("field.lat")>>}]

SetupLonLatCalls ==
    [op : {"setup_lon_lat"}, to_plot : SeqsUpTo(CoordFields, MaxFields),
     lon : {<<>>, <<Coords("lon")>>}, lat : {<<>>, <<Coords("lat")>>}]

InitLonLat ==
    /\ pc = "call"
    /\ call \in SetupLonLatCalls
    /\ ret = Returned(<<>>)
    /\ NoDrawing

SetupLonLat ==
    /\ pc = "call"
    /\ call.op = "setup_lon_lat"
    /\ LET r == setup_lon_lat(call.to_plot, call.lon, call.lat)
       IN  /\ ret' = r.out
           /\ stdout' = stdout \o r.printed
    /\ pc' = "return"
    /\ UNCHANGED <<call, grid, axes, cbar, artists, frames>>

NextLonLat == SetupLonLat

SpecLonLat == InitLonLat /\ [][NextLonLat]_vars

\* C10: setup_lon_lat never returns a defaulted coordinate: with both lon and
\* lat supplied it returns exactly those two; with lon or lat missing it
\* returns the first field's coordinates; with lon or lat missing and a first
\* field without lon/lat coordinates it reports that coordinates must be
\* provided and fails instead of returning a value.
LonLatNeverDefaulted ==
    (pc = "return" /\ call.op = "setup_lon_lat")
    => /\ (call.lon # <<>> /\ call.lat # <<>>)
          => ret = Returned(<<call.lon, call.lat>>) /\ stdout = <<>>
       /\ ((call.lon = <<>> \/ call.lat = <<>>) /\ Len(call.to_plot) > 0)
          => LET f == call.to_plot[1]
             IN  IF f.lon # <<>> /\ f.lat # <<>>
                 THEN ret = Returned(<<f.lon, f.lat>>) /\ stdout = <<>>
                 ELSE /\ ret.exc = "AttributeError"
                      /\ ret.val = <<>>
                      /\ stdout = <<MissingCoords>>
       /\ ret.exc = ""
          => \/ /\ call.lon # <<>>
                /\ call.lat # <<>>
                /\ ret.val = <<call.lon, call.lat>>
             \/ /\ Len(call.to_plot) > 0
                /\ call.to_plot[1].lon # <<>>
                /\ call.to_plot[1].lat # <<>>
                /\ ret.val = <<call.to_plot[1].lon, call.to_plot[1].lat>>

LonLatNeverDefaultedWitness ==
    /\ pc = "return"
    /\ call.op = "setup_lon_lat"
    /\ call.lon = <<>>
    /\ call.lat = <<Coords("lat")>>
    /\ Len(call.to_plot) > 0
    /\ call.to_plot[1].lon = <<Coords("field.lon")>>
    /\ call.to_plot[1].lat = <<>>
    /\ ret.exc = "AttributeError"
    /\ stdout = <<MissingCoords>>

----------------------------------------------------------------------------
(* Numbers *)

\* A real number x (a data value, a quantile, a level) is the integer
\* x * Unit.  Data values are whole numbers and q is a whole number of
\* hundredths, so that quantiles, tick steps and ticks are all exact.
Unit == 100000

Range(f) == {f[i] : i \in DOMAIN f}

RECURSIVE Concat(_)
Concat(ss) == IF ss = <<>> THEN <<>> ELSE Head(ss) \o Concat(Tail(ss))

\* The k-th smallest element (0-based) of the sequence a
Kth(a, k) ==
    CHOOSE v \in Range(a) :
        /\ Cardinality({i \in DOMAIN a : a[i] < v}) <= k
        /\ k < Cardinality({i \in DOMAIN a : a[i] <= v})

\* np.nanquantile(a, p / 100) of the whole numbers a, method "linear"
Quantile(a, p) ==
    LET pos == p * (Len(a) - 1)
        i == pos \div 100
        f == pos % 100
        lo == Kth(a, i)
        hi == IF f = 0 THEN lo ELSE Kth(a, i + 1)
    IN  (lo * 100 + f * (hi - lo)) * (Unit \div 100)

----------------------------------------------------------------------------
(* matplotlib.ticker.MaxNLocator(nbins, symmetric).tick_values(vmin, vmax) *)

\* MaxNLocator's steps [1, 1.5, 2, 2.5, 3, 4, 5, 6, 8, 10], extended one
\* decade down and one step up (_staircase), in hundredths of the scale.
ExtendedSteps ==
    <<10, 15, 20, 25, 30, 40, 50, 60, 80,
      100, 150, 200, 250, 300, 400, 500, 600, 800, 1000, 1500>>

\* The largest power of ten p >= s with p * n <= d
RECURSIVE Pow10Below(_, _, _)
Pow10Below(d, n, s) == IF 10 * s * n <= d THEN Pow10Below(d, n, 10 * s) ELSE s

\* transforms.nonsingular(vmin, vmax, expander=1e-13, tiny=1e-14): the
\* interval in increasing order; an interval reduced to zero becomes
\* [-1e-13, 1e-13], written [-Unit, Unit] with `tiny` set: the numbers of a
\* tiny interval, and its ticks, are in units of 1e-13 instead of 1.
\* create_levels never gives a one-point interval away from zero.
nonsingular(vmin, vmax) ==
    LET lo == Min(vmin, vmax)
        hi == Max(vmin, vmax)
    IN  IF lo = hi
        THEN [vmin |-> -Unit, vmax |-> Unit, tiny |-> TRUE]
        ELSE [vmin |-> lo, vmax |-> hi, tiny |-> FALSE]

\* ticker.scale_range(vmin, vmax, n, threshold=100)
scale_range(vmin, vmax, n) ==
    LET dv == Abs(vmax - vmin)
        twicemean == vmax + vmin
    IN  [scale |-> Pow10Below(dv, n, 1),
         offset |-> IF Abs(twicemean) < 200 * dv
                    THEN 0
                    ELSE (IF twicemean < 0 THEN -1 ELSE 1)
                         * Pow10Below(Abs(twicemean), 2, 1)]

\* The ticks of step `step` covering [vmin, vmax]: the multiples of step from
\* the last one <= vmin to the first one >= vmax.
TicksOfStep(vmin, vmax, step) ==
    LET best_vmin == (vmin \div step) * step
        high == ((vmax - best_vmin) + step - 1) \div step
    IN  [k \in 1..(high + 1) |-> best_vmin + (k - 1) * step]

\* MaxNLocator._raw_ticks: start at the smallest step >= (vmax - vmin) / nbins
\* and go down through smaller steps until at least min_n_ticks = 2 ticks
\* lie inside [vmin, vmax].
RECURSIVE StepDown(_, _, _, _)
StepDown(vmin, vmax, scale, i) ==
    LET ticks == TicksOfStep(vmin, vmax, (ExtendedSteps[i] * scale) \div 100)
        nticks == Cardinality({k \in DOMAIN ticks : vmin <= ticks[k] /\ ticks[k] <= vmax})
    IN  IF nticks >= 2 \/ i = 1
        THEN ticks
        ELSE StepDown(vmin, vmax, scale, i - 1)

raw_ticks(nbins, vmin, vmax) ==
    LET sr == scale_range(vmin, vmax, nbins)
        lo == vmin - sr.offset
        hi == vmax - sr.offset
        large == {i \in DOMAIN ExtendedSteps :
                     ((ExtendedSteps[i] * sr.scale) \div 100) * nbins >= hi - lo}
        istep == IF large # {}
                 THEN CHOOSE i \in large : \A j \in large : i <= j
                 ELSE Len(ExtendedSteps)
        ticks == StepDown(lo, hi, sr.scale, istep)
    IN  [k \in DOMAIN ticks |-> ticks[k] + sr.offset]

tick_values(nbins, symmetric, vmin, vmax) ==
    LET m == Max(Abs(vmin), Abs(vmax))
        ns == IF symmetric THEN nonsingular(-m, m) ELSE nonsingular(vmin, vmax)
    IN  [ticks |-> raw_ticks(nbins, ns.vmin, ns.vmax), tiny |-> ns.tiny]

----------------------------------------------------------------------------
(* create_levels *)

\* All the values of all the fields of to_plot
AllVals(to_plot) == Concat([i \in DOMAIN to_plot |-> to_plot[i].vals])

\* jetstream_hugo.definitions.infer_direction: the sign pattern of the
\* extremes of the data: <<1>> positive-only, <<-1>> negative-only, <<0>>
\* mixed, <<>> (None) when the data has no sign at all.
infer_direction(to_plot) ==
    LET a == AllVals(to_plot)
        lo == Kth(a, 0)
        hi == Kth(a, Len(a) - 1)
    IN  IF lo < 0 /\ hi > 0 THEN <<0>>
        ELSE IF hi > 0 THEN <<1>>
        ELSE IF lo < 0 THEN <<-1>>
        ELSE <<>>

BoolDirectionMixed == <<0>>

\* The direction returned for boolean input: the literal 1
BoolDirection == <<1>>

BoolLevelsNoHalf == <<0, Unit>>

\* np.array([0, 0.5, 1])
BoolLevels == <<0, Unit \div 2, Unit>>

extend_swapped == [d \in {<<-1>>, <<0>>, <<1>>} |->
                   IF d = <<-1>> THEN "max" ELSE IF d = <<0>> THEN "both" ELSE "min"]

\* extend = {-1: "min", 0: "both", 1: "max"}
extend_map == [d \in {<<-1>>, <<0>>, <<1>>} |->
               IF d = <<-1>> THEN "min" ELSE IF d = <<0>> THEN "both" ELSE "max"]

MiddleIndexLow(n) == (n \div 2) - 1

\* len(levelsc) // 2
MiddleIndex(n) == n \div 2

\* np.delete(a, k): a without its element of 0-based index k; a negative k
\* counts from the end
np_delete(a, k) ==
    LET j == IF k < 0 THEN k + Len(a) ELSE k
    IN  IF j < 0 \/ j >= Len(a)
        THEN Raised("IndexError")
        ELSE Returned([i \in 1..(Len(a) - 1) |-> IF i <= j THEN a[i] ELSE a[i + 1]])

\* The returned tuple (levelsc, levelscf, extend, direction); `tiny` tells
\* that the levels are in units of 1e-13 (see nonsingular).
LevelsResult(levelsc, levelscf, extend, direction, tiny) ==
    Returned([levelsc |-> levelsc, levelscf |-> levelscf, extend |-> extend,
              direction |-> direction, tiny |-> tiny])

\* levelsc with its middle element removed when the direction is 0
WithFill(levelsc, extend, direction, tiny) ==
    IF direction = <<0>>
    THEN LET d == np_delete(levelsc, MiddleIndex(Len(levelsc)))
         IN  IF d.exc # ""
             THEN d
             ELSE LevelsResult(levelsc, d.val, extend, direction, tiny)
    ELSE LevelsResult(levelsc, levelsc, extend, direction, tiny)

DefaultLevelsAlwaysSeven(direction) == 7

\* levels = 7 if direction is None else 4
DefaultLevels(direction) == IF direction = <<>> THEN 7 ELSE 4

\* levels is [kind, n, seq]: None, the integer n, or the sequence seq.
\* q is in hundredths.
create_levels(to_plot, levels, q) ==
    IF Len(to_plot) = 0
    THEN Raised("IndexError")
    ELSE IF to_plot[1].dtype = "bool"
    THEN LevelsResult(BoolLevels, BoolLevels, "neither", BoolDirection, FALSE)
    ELSE LET direction == infer_direction(to_plot)
         IN  IF q < 100 /\ direction \notin DOMAIN extend_map
             THEN Raised("KeyError")
             ELSE
             LET extend == IF q < 100 THEN extend_map[direction] ELSE "neither"
             IN  IF levels.kind = "seq"
                 THEN WithFill(levels.seq, extend, direction, FALSE)
                 ELSE
                 LET nbins == IF levels.kind = "none"
                              THEN DefaultLevels(direction)
                              ELSE levels.n
                     a == AllVals(to_plot)
                     lowbound == IF direction = <<1>> THEN 0 ELSE Quantile(a, 100 - q)
                     highbound == IF direction = <<-1>> THEN 0 ELSE Quantile(a, q)
                     t == tick_values(nbins, direction = <<0>>, lowbound, highbound)
                 IN  WithFill(t.ticks, extend, direction, t.tiny)

FloatValues == {-2, 0, 3}

\* The fields: float fields with their values in increasing order (levels
\* depend on the values of a field, not on their places) and boolean fields
LevelFields ==
    [dtype : {"float"},
     vals : {v \in [1..GridSize -> FloatValues] :
                \A i \in 1..(GridSize - 1) : v[i] <= v[i + 1]},
     lon : {<<Coords("field.lon")>>}, lat : {<<Coords("field.lat")>>}]
    \cup [dtype : {"bool"}, vals : {[i \in 1..GridSize |-> 1], [i \in 1..GridSize |-> i % 2]},
          lon : {<<Coords("field.lon")>>}, lat : {<<Coords("field.lat")>>}]

\* The strictly increasing sequences of at most n whole numbers out of S
IncreasingSeqs(S, n) ==
    {l \in SeqsUpTo(S, n) : \A i \in 1..(Len(l) - 1) : l[i] < l[i + 1]}

NoLevels == [kind |-> "none", n |-> 0, seq |-> <<>>]
IntLevels(k) == [kind |-> "int", n |-> k, seq |-> <<>>]
SeqLevels(l) == [kind |-> "seq", n |-> 0, seq |-> [i \in DOMAIN l |-> l[i] * Unit]]

LevelsArgs ==
    {NoLevels}
    \cup {IntLevels(k) : k \in {1, 4, 7}}
    \cup {SeqLevels(l) : l \in IncreasingSeqs(-1..2, MaxLevelSeq)}

Quantiles == {10, 50, 99, 100}

CreateLevelsCalls ==
    [op : {"create_levels"}, to_plot : SeqsUpTo(LevelFields, MaxFields),
     levels : LevelsArgs, q : Quantiles]

InitLevels ==
    /\ pc = "call"
    /\ call \in CreateLevelsCalls
    /\ ret = Returned(<<>>)
    /\ NoDrawing

CreateLevels ==
    /\ pc = "call"
    /\ call.op = "create_levels"
    /\ ret' = create_levels(call.to_plot, call.levels, call.q)
    /\ pc' = "return"
    /\ UNCHANGED <<call, grid, axes, cbar, artists, stdout, frames>>

NextLevels == CreateLevels

SpecLevels == InitLevels /\ [][NextLevels]_vars

LevelsReturned ==
    /\ pc = "return"
    /\ call.op = "create_levels"
    /\ Len(call.to_plot) > 0

\* C1: for any input whose first field is boolean, create_levels returns the
\* full level sequence [0, 0.5, 1], the fill level sequence [0, 0.5, 1] and
\* extend "neither", whatever q and whatever levels argument.
BoolFixedLevels ==
    (LevelsReturned /\ call.to_plot[1].dtype = "bool")
    => /\ ret.exc = ""
       /\ ret.val.levelsc = <<0, 5 * (Unit \div 10), Unit>>
       /\ ret.val.levelscf = <<0, 5 * (Unit \div 10), Unit>>
       /\ ret.val.extend = "neither"
       /\ ~ret.val.tiny

BoolFixedLevelsWitness ==
    /\ LevelsReturned
    /\ call.to_plot[1].dtype = "bool"
    /\ call.q = 99
    /\ call.levels.kind = "seq"
    /\ Len(call.levels.seq) = 4
    /\ ret.exc = ""
    /\ Len(ret.val.levelsc) = 3

\* C11 as stated: for boolean input create_levels reports the direction 0
\* (mixed-symmetric), with the fixed levels {0, 0.5, 1} and extend "neither".
BoolReportsMixed ==
    (LevelsReturned /\ call.to_plot[1].dtype = "bool")
    => /\ ret.exc = ""
       /\ ret.val.direction = <<0>>
       /\ Range(ret.val.levelsc) = {0, Unit \div 2, Unit}
       /\ ret.val.extend = "neither"

\* C11, amended: for boolean input create_levels reports the direction 1
\* (positive-only), with the fixed levels {0, 0.5, 1} as full and as fill
\* levels (no level is removed) and extend "neither".
BoolReportsPositive ==
    (LevelsReturned /\ call.to_plot[1].dtype = "bool")
    => /\ ret.exc = ""
       /\ ret.val.direction = <<1>>
       /\ Range(ret.val.levelsc) = {0, Unit \div 2, Unit}
       /\ Len(ret.val.levelscf) = 3
       /\ Range(ret.val.levelscf) = {0, Unit \div 2, Unit}
       /\ ret.val.extend = "neither"

BoolReportsPositiveWitness ==
    /\ LevelsReturned
    /\ call.to_plot[1].dtype = "bool"
    /\ Len(call.to_plot) = 2
    /\ call.to_plot[2].dtype = "float"
    /\ \E i, j \in DOMAIN call.to_plot[2].vals :
          call.to_plot[2].vals[i] < 0 /\ call.to_plot[2].vals[j] > 0
    /\ call.levels.kind = "none"
    /\ call.q = 99
    /\ ret.exc = ""
    /\ ret.val.direction = <<1>>

\* C2: for non-boolean input create_levels returns extend "neither" whenever
\* q == 1, and for q < 1 "min" for direction -1, "both" for direction 0 and
\* "max" for direction 1, with explicit and with generated levels alike.
ExtendPolicy ==
    (LevelsReturned /\ call.to_plot[1].dtype # "bool")
    => /\ ret.exc = ""
          => /\ call.q = 100 => ret.val.extend = "neither"
             /\ (call.q < 100 /\ ret.val.direction = <<-1>>) => ret.val.extend = "min"
             /\ (call.q < 100 /\ ret.val.direction = <<0>>) => ret.val.extend = "both"
             /\ (call.q < 100 /\ ret.val.direction = <<1>>) => ret.val.extend = "max"
             /\ call.q < 100 => ret.val.direction # <<>>
       \* the call does return, but for a direction of None with q < 1 and
       \* for an empty level sequence in direction 0
       /\ ret.exc # ""
          => \/ call.q < 100 /\ ret.exc = "KeyError"
             \/ call.levels.kind = "seq" /\ call.levels.seq = <<>>

ExtendPolicyWitness ==
    /\ LevelsReturned
    /\ call.to_plot[1].dtype # "bool"
    /\ call.q = 99
    /\ call.levels.kind = "none"
    /\ ret.exc = ""
    /\ ret.val.direction = <<-1>>
    /\ ret.val.extend = "min"

\* a is b with one element removed, the removed element being a middle one:
\* as many elements before it as after it, give or take one.
MiddleRemoved(a, b) ==
    /\ Len(a) = Len(b) - 1
    /\ \E m \in 1..Len(b) :
          /\ Abs((m - 1) - (Len(b) - m)) <= 1
          /\ \A i \in 1..Len(a) : a[i] = (IF i < m THEN b[i] ELSE b[i + 1])

\* C3: whenever create_levels reports direction 0, for a caller-supplied level
\* sequence (used verbatim as the full sequence) as for generated levels, the
\* fill-level sequence has exactly one element fewer than the full sequence
\* and is the full sequence with its middle element removed, the others kept
\* in order.
FillDropsMiddle ==
    (LevelsReturned /\ ret.exc = "" /\ ret.val.direction = <<0>>)
    => /\ MiddleRemoved(ret.val.levelscf, ret.val.levelsc)
       /\ call.levels.kind = "seq" => ret.val.levelsc = call.levels.seq

FillDropsMiddleWitness ==
    /\ LevelsReturned
    /\ ret.exc = ""
    /\ ret.val.direction = <<0>>
    /\ call.levels.kind = "seq"
    /\ Len(ret.val.levelsc) = 3
    /\ Len(ret.val.levelscf) = 2

FillDropsMiddleGenerated ==
    /\ LevelsReturned
    /\ ret.exc = ""
    /\ ret.val.direction = <<0>>
    /\ call.levels.kind = "none"
    /\ Len(ret.val.levelsc) = 5
    /\ Len(ret.val.levelscf) = 4

----------------------------------------------------------------------------
(* Clusterplot.cluster_on_fig *)

\* The elements of the set S of integers in increasing order (np.unique)
RECURSIVE Sorted(_)
Sorted(S) ==
    IF S = {} THEN <<>>
    ELSE LET lo == CHOOSE x \in S : \A y \in S : x <= y
         IN  <<lo>> \o Sorted(S \ {lo})

\* np.linspace(a, b, n) for a and b in hundredths: element k (0-based) is the
\* fraction <<numerator, denominator>> of hundredths
linspace(a, b, n) ==
    [k \in 1..n |-> IF n = 1 THEN <<a, 1>> ELSE <<a * (n - 1) + (k - 1) * (b - a), n - 1>>]

\* A colour is [cmap, at]: the colour of the colormap `cmap` at the fraction
\* `at`, or element `at` of a list of colours given by the caller.
NoColor == [cmap |-> "none", at |-> <<0, 1>>]

\* cmap is [kind, name, list]: None, the name of a colormap or a list of
\* colours.  The colours of the labels, in the order of unique_labs.
cluster_colors(unique_labs, cmap) ==
    LET sym == \E i \in DOMAIN unique_labs : unique_labs[i] < 0
        name == IF cmap.kind = "none"
                THEN (IF sym THEN "PiYG" ELSE "Greens")
                ELSE cmap.name
        nabove == Cardinality({i \in DOMAIN unique_labs : unique_labs[i] > 0})
        nbelow == Cardinality({i \in DOMAIN unique_labs : unique_labs[i] < 0})
        haszero == \E i \in DOMAIN unique_labs : unique_labs[i] = 0
        at == IF sym
              THEN linspace(33, 0, nbelow)
                   \o (IF haszero THEN <<(<<50, 1>>)>> ELSE <<>>)
                   \o linspace(100, 66, nabove)
              ELSE (IF haszero THEN <<(<<0, 1>>)>> ELSE <<>>)
                   \o linspace(100, 33, nabove)
    IN  IF cmap.kind = "list"
        THEN cmap.list
        ELSE [i \in DOMAIN at |-> [cmap |-> name, at |-> at[i]]]

IsBackgroundOrBelow(lab) == lab <= 0

\* lab == 0
IsBackground(lab) == lab = 0

\* The PathPatch drawn for path number k of the iso-contour of label lab, the
\* i-th (0-based) of the unique labels.  `label` and `path` identify the
\* patch; alpha is in hundredths.
patch_of(lab, i, k, colors) ==
    IF IsBackground(lab)
    THEN [label |-> lab, path |-> k, fc |-> "black", alpha |-> 20,
          ec |-> NoColor, lw |-> 6, ls |-> "none"]
    ELSE [label |-> lab, path |-> k, fc |-> "none", alpha |-> 100,
          ec |-> colors[i + 1], lw |-> 6,
          ls |-> IF lab >= 0 THEN "solid" ELSE "dashed"]

\* The loop over unique_labs from its i-th label (0-based) on: npaths[i + 1]
\* is the number of paths the interpolation and the contour generator give
\* for that label.  The loop stops at a label without a colour.
RECURSIVE draw_labels(_, _, _, _, _)
draw_labels(unique_labs, colors, npaths, i, drawn) ==
    IF i >= Len(unique_labs)
    THEN [out |-> Returned(<<>>), drawn |-> drawn]
    ELSE LET lab == unique_labs[i + 1]
         IN  IF ~IsBackground(lab) /\ i >= Len(colors)
             THEN [out |-> Raised("IndexError"), drawn |-> drawn]
             ELSE draw_labels(unique_labs, colors, npaths, i + 1,
                              drawn \o [k \in 1..npaths[i + 1] |->
                                          patch_of(lab, i, k, colors)])

Labels == {-1, 0, 1, 2}

ListedColors(n) == [k \in 1..n |-> [cmap |-> "list", at |-> <<k - 1, 1>>]]

ClusterCmaps ==
    {[kind |-> "none", name |-> "", list |-> <<>>],
     [kind |-> "str", name |-> "viridis", list |-> <<>>],
     [kind |-> "list", name |-> "", list |-> ListedColors(2)],
     [kind |-> "list", name |-> "", list |-> ListedColors(Cardinality(Labels))]}

ClusterCalls ==
    [op : {"cluster_on_fig"},
     clu_labs : UNION {[1..n -> Labels] : n \in 2..MaxLabs},
     cmap : ClusterCmaps]

InitCluster ==
    /\ pc = "call"
    /\ call \in ClusterCalls
    /\ ret = Returned(<<>>)
    /\ grid \in [nrow : {1, 3}, ncol : {1}]
    /\ axes = [i \in 1..(grid.nrow * grid.ncol) |-> NewPanel]
    /\ cbar = <<>>
    /\ artists = <<>>
    /\ stdout = <<>>
    /\ frames = <<>>

\* coords has one point per label; coords[self.nrow, 0] and coords[2, 1] must
\* exist.
ClusterOnFig ==
    /\ pc = "call"
    /\ call.op = "cluster_on_fig"
    /\ LET unique_labs == Sorted(Range(call.clu_labs))
       IN  IF Len(call.clu_labs) <= Max(grid.nrow, 2)
           THEN /\ ret' = Raised("IndexError")
                /\ UNCHANGED artists
           ELSE \E npaths \in [1..Len(unique_labs) -> 0..MaxPaths] :
                   LET r == draw_labels(unique_labs,
                                        cluster_colors(unique_labs, call.cmap),
                                        npaths, 0, <<>>)
                   IN  /\ ret' = r.out
                       /\ artists' = artists \o r.drawn
    /\ pc' = "return"
    /\ UNCHANGED <<call, grid, axes, cbar, stdout, frames>>

NextCluster == ClusterOnFig

SpecCluster == InitCluster /\ [][NextCluster]_vars

\* C6: every patch added for label 0 is a filled patch with no visible edge
\* and the background alpha; every patch added for another label has no fill
\* and a coloured edge, solid for a label >= 0 and dashed for a label < 0; no
\* label other than 0 produces a filled patch.
ClusterPatchStyle ==
    \A k \in DOMAIN artists :
        LET p == artists[k]
        IN  IF p.label = 0
            THEN p.fc = "black" /\ p.ec = NoColor /\ p.alpha = 20
            ELSE /\ p.fc = "none"
                 /\ p.ec # NoColor
                 /\ p.ls = (IF p.label > 0 THEN "solid" ELSE "dashed")

ClusterPatchStyleWitness ==
    /\ pc = "return"
    /\ ret.exc = ""
    /\ \E i, j, k \in DOMAIN artists :
          /\ artists[i].label = 0
          /\ artists[j].label < 0 /\ artists[j].ls = "dashed"
          /\ artists[k].label > 0 /\ artists[k].ls = "solid"

----------------------------------------------------------------------------
(* Clusterplot.add_contour *)

\* What a method does: its outcome, self.axes after it, what it printed and
\* the frames it added.
Effect(out, ax, printed, fr) ==
    [out |-> out, axes |-> ax, printed |-> printed, frames |-> fr]

\* clabels is [kind, b, list]: None, a bool or a list of levels.
NoClabels == [kind |-> "none", b |-> FALSE, list |-> <<>>]
BoolClabels(b) == [kind |-> "bool", b |-> b, list |-> <<>>]
ListClabels(l) == [kind |-> "list", b |-> FALSE, list |-> l]

\* The value v bound to a parameter: <<>> when v is None
OptArg(v) == IF v.kind = "none" THEN <<>> ELSE <<v>>

\* titles and draw_gridlines
NoDecor == [titles |-> <<>>, draw_gridlines |-> FALSE]

\* Clusterplot._add_titles
add_titles(ax, titles) ==
    LET t == IF Len(titles) > Len(ax) THEN SubSeq(titles, 1, Len(ax)) ELSE titles
    IN  [p \in DOMAIN ax |->
            IF p <= Len(t) THEN [ax[p] EXCEPT !.title = <<t[p]>>] ELSE ax[p]]

\* Clusterplot._add_gridlines
add_gridlines(ax) == [p \in DOMAIN ax |-> [ax[p] EXCEPT !.gridlines = @ + 1]]

\* ax.contour(x, y, z) and ax.contourf(x, y, z) accept x and y when they are
\* coordinate arrays of the grid of z, or array-likes that happen to have the
\* shape of z (a field is one row of len(vals) columns); they raise
\* TypeError otherwise.
contour_ok(x, y, field) ==
    \/ x.kind = "coords" /\ y.kind = "coords"
    \/ /\ x.kind = "seq" /\ y.kind = "list"
       /\ Len(x.seq) = Len(field.vals) /\ Len(y.list) = 1

zip_len_short(naxes, nfields) == Min(naxes, nfields - 1)

\* zip(self.axes, to_plot): the number of (panel, field) pairs
zip_len(naxes, nfields) == Min(naxes, nfields)

\* ax.clabel after ax.contour: on every level, on the levels of a list, or
\* not at all
clabel_of(clabels) ==
    IF clabels.kind = "bool" /\ clabels.b THEN [on |-> "all", levels |-> <<>>]
    ELSE IF clabels.kind = "list" THEN [on |-> "list", levels |-> clabels.list]
    ELSE [on |-> "none", levels |-> <<>>]

\* The line contours of field number i (0-based) of to_plot
contour_artist(i, field, x, y, levels, colors, linestyles, cmap, clabels) ==
    [kind |-> "contour", i |-> i, data |-> field.vals, lon |-> x, lat |-> y,
     levels |-> levels, colors |-> colors, linestyles |-> linestyles,
     linewidths |-> 2, cmap |-> cmap, clabel |-> clabel_of(clabels)]

\* `if titles is not None: self._add_titles(titles)` and
\* `if draw_gridlines: self._add_gridlines()`
add_decor(ax, decor) ==
    IF decor.titles # <<>>
    THEN IF decor.draw_gridlines
         THEN add_gridlines(add_titles(ax, decor.titles[1]))
         ELSE add_titles(ax, decor.titles[1])
    ELSE IF decor.draw_gridlines THEN add_gridlines(ax) ELSE ax

add_contour(ax, to_plot, lon, lat, levels, clabels, decor, colors, linestyles, q, cmap) ==
    LET frame == [fn |-> "add_contour", lon |-> lon, lat |-> lat,
                  levels |-> levels, clabels |-> clabels, q |-> q]
        n == zip_len(Len(ax), Len(to_plot))
        \* The loop over zip(self.axes, to_plot) and what follows it
        Draw(x, y, levelscf, col, ls) ==
            IF n >= 1 /\ ~contour_ok(x, y, to_plot[1])
            THEN Effect(Raised("TypeError"), ax, <<>>, <<frame>>)
            ELSE Effect(Returned(<<>>),
                        add_decor([p \in DOMAIN ax |->
                                     IF p <= n
                                     THEN [ax[p] EXCEPT !.drawn = @ \o
                                             <<contour_artist(p - 1, to_plot[p], x, y,
                                                   levelscf, col, ls, cmap, clabels)>>]
                                     ELSE ax[p]],
                                  decor),
                        <<>>, <<frame>>)
        \* The direction 0 doubles colors and linestyles
        Doubled(ll, v, dcol, dls) ==
            IF dcol.exc # "" THEN Effect(dcol, ax, <<>>, <<frame>>)
            ELSE IF dls.exc # "" THEN Effect(dls, ax, <<>>, <<frame>>)
            ELSE Draw(ll.out.val[1][1], ll.out.val[2][1], v.levelscf,
                      IF cmap # <<>> THEN NoThing ELSE ListThing(dcol.val),
                      ListThing(dls.val))
        Styled(ll, v) ==
            IF v.direction = <<0>>
            THEN Doubled(ll, v,
                         doubleit(colors, Len(v.levelsc), "black"),
                         doubleit(IF linestyles.tag = "none"
                                  THEN ListThing(<<"dashed", "solid">>)
                                  ELSE linestyles,
                                  Len(v.levelsc), "solid"))
            ELSE Draw(ll.out.val[1][1], ll.out.val[2][1], v.levelscf,
                      IF cmap # <<>> THEN NoThing
                      ELSE IF colors.tag = "none" THEN StrThing("black")
                      ELSE colors,
                      IF linestyles.tag = "none" THEN StrThing("solid") ELSE linestyles)
        Setup(ll, cl) ==
            IF ll.out.exc # "" THEN Effect(ll.out, ax, ll.printed, <<frame>>)
            ELSE IF cl.exc # "" THEN Effect(cl, ax, <<>>, <<frame>>)
            ELSE Styled(ll, cl.val)
    IN  Setup(setup_lon_lat(to_plot, lon, lat), create_levels(to_plot, levels, q))

----------------------------------------------------------------------------
(* Clusterplot.setup_contourf and Clusterplot.add_contourf *)

\* A colormap with its list of colours when it is a ListedColormap
Continuous(N, alpha) == [N |-> N, alpha |-> alpha, listed |-> <<>>]
Listed(colorlist) == [N |-> Len(colorlist), alpha |-> 100, listed |-> colorlist]

\* DEFAULT_COLORMAP = colormaps.fusion_r
DEFAULT_COLORMAP == Continuous(256, 100)

\* transparify is [kind, b, n, a]: a bool, an int or a float (in hundredths)
BoolTransparify(b) == [kind |-> "bool", b |-> b, n |-> 0, a |-> 0]
IntTransparify(n) == [kind |-> "int", b |-> FALSE, n |-> n, a |-> 0]
FloatTransparify(a) == [kind |-> "float", b |-> FALSE, n |-> 0, a |-> a]

\* `if transparify:`
truthy(t) == IF t.kind = "bool" THEN t.b ELSE IF t.kind = "int" THEN t.n # 0 ELSE t.a # 0

\* BoundaryNorm(boundaries, ncolors, extend=extend)
BoundaryNorm(boundaries, ncolors, extend) ==
    LET n_regions == Len(boundaries) - 1
                     + (IF extend \in {"min", "both"} THEN 1 ELSE 0)
                     + (IF extend \in {"max", "both"} THEN 1 ELSE 0)
    IN  IF Len(boundaries) = 0 THEN Raised("IndexError")
        ELSE IF Len(boundaries) < 2 \/ n_regions > ncolors THEN Raised("ValueError")
        ELSE Returned([boundaries |-> boundaries, Ncmap |-> ncolors, extend |-> extend])

setup_contourf(ax, to_plot, levels, cmap, transparify, contours, clabels, q) ==
    LET \* The return, after the overlay of line contours
        Overlaid(v, cm, norm, overlay) ==
            IF overlay.out.exc # "" THEN overlay
            ELSE Effect(Returned([kwargs |-> [levels |-> v.levelscf, cmap |-> cm,
                                              norm |-> norm.val, extend |-> v.extend],
                                  im |-> [norm |-> norm.val, cmap |-> cm],
                                  levelsc |-> v.levelsc]),
                        overlay.axes, overlay.printed, overlay.frames)
        \* self.add_contour(to_plot, levels, clabels): the second and third
        \* positional parameters of add_contour are lon and lat
        Normed(v, cm, norm) ==
            IF norm.exc # "" THEN Effect(norm, ax, <<>>, <<>>)
            ELSE IF contours \/ clabels.kind # "none"
            THEN Overlaid(v, cm, norm,
                          add_contour(ax, to_plot, OptArg(levels), OptArg(clabels),
                                      NoLevels, BoolClabels(FALSE), NoDecor,
                                      NoThing, NoThing, 99, <<>>))
            ELSE Overlaid(v, cm, norm, Effect(Returned(<<>>), ax, <<>>, <<>>))
        Mapped(v, cm) == Normed(v, cm, BoundaryNorm(v.levelscf, cm.N, v.extend))
        \* isinstance(transparify, int) holds of a bool as well: True is 1
        Levelled(v) ==
            IF ~truthy(transparify) THEN Mapped(v, cmap)
            ELSE Mapped(v, Listed(make_transparent(
                               cmap, <<Len(v.levelscf)>>,
                               IF transparify.kind = "float" THEN transparify.a ELSE 100,
                               IF transparify.kind = "int" THEN transparify.n ELSE 1,
                               v.direction)))
        Setup(cl) == IF cl.exc # "" THEN Effect(cl, ax, <<>>, <<>>) ELSE Levelled(cl.val)
    IN  Setup(create_levels(to_plot, levels, q))

\* The filled contours of field number i (0-based) of to_plot
contourf_artist(i, field, x, y, kwargs) ==
    [kind |-> "contourf", i |-> i, data |-> field.vals, lon |-> x, lat |-> y,
     levels |-> kwargs.levels, cmap |-> kwargs.cmap, norm |-> kwargs.norm,
     extend |-> kwargs.extend]

\* self.cbar is [attr, onfig]: the attribute (<<>> for None) and the number
\* of colorbars on the figure.
add_contourf(ax, cb, to_plot, lon, lat, levels, cmap, transparify, contours, clabels, decor, draw_cbar, q) ==
    LET n == zip_len(Len(ax), Len(to_plot))
        \* The loop over zip(self.axes, to_plot) and what follows it
        Draw(x, y, sc) ==
            IF n >= 1 /\ ~contour_ok(x, y, to_plot[1])
            THEN [eff |-> Effect(Raised("TypeError"), sc.axes, sc.printed, sc.frames),
                  cbar |-> cb]
            ELSE [eff |-> Effect(Returned(<<sc.out.val.im, sc.out.val.kwargs>>),
                                 add_decor([p \in DOMAIN ax |->
                                              IF p <= n
                                              THEN [sc.axes[p] EXCEPT !.drawn = @ \o
                                                      <<contourf_artist(p - 1, to_plot[p], x, y,
                                                                        sc.out.val.kwargs)>>]
                                              ELSE sc.axes[p]],
                                           decor),
                                 sc.printed, sc.frames),
                  cbar |-> IF draw_cbar
                           THEN [attr |-> <<[im |-> sc.out.val.im,
                                             spacing |-> "proportional"]>>,
                                 onfig |-> cb.onfig + 1]
                           ELSE [attr |-> <<>>, onfig |-> cb.onfig]]
        Fill(ll, sc) ==
            IF sc.out.exc # ""
            THEN [eff |-> sc, cbar |-> cb]
            ELSE Draw(ll.out.val[1][1], ll.out.val[2][1], sc)
        Setup(ll) ==
            IF ll.out.exc # ""
            THEN [eff |-> Effect(ll.out, ax, ll.printed, <<>>), cbar |-> cb]
            ELSE Fill(ll, setup_contourf(ax, to_plot, levels, cmap, transparify,
                                         contours, clabels, q))
    IN  Setup(setup_lon_lat(to_plot, lon, lat))

----------------------------------------------------------------------------
(* Clusterplot.add_stippling *)

\* da is [vals, lon, lat]: the values of the field at every time step, and
\* its coordinates.  mask[t][g] tells whether time step t is a member of
\* group g.
Column(mask, g) == [t \in DOMAIN mask |-> mask[t][g]]
NGroups(mask) == Len(mask[1])

\* da.isel(time=mas): the time steps of the members, in time order
RECURSIVE isel(_, _)
isel(vals, mas) ==
    IF vals = <<>> THEN <<>>
    ELSE (IF Head(mas) THEN <<Head(vals)>> ELSE <<>>) \o isel(Tail(vals), Tail(mas))

NeverMemberless(mas) == FALSE

\* np.sum(mas) < 1
IsMemberless(mas) == \A t \in DOMAIN mas : ~mas[t]

\* np.zeros(da.shape[1:])
Zeros(da) == [i \in DOMAIN da.vals[1] |-> 0]

\* The sample of every group: its members, or one all-zero time step
to_test_of(da, mask) ==
    [g \in 1..NGroups(mask) |->
        IF IsMemberless(Column(mask, g))
        THEN <<Zeros(da)>>
        ELSE isel(da.vals, Column(mask, g))]

\* The significance fields a test can return: (significant, significant
\* after the false-discovery-rate correction), point by point
NoSig(n) == [i \in 1..n |-> FALSE]
AllSig(n) == [i \in 1..n |-> TRUE]
SigPairs(n) == {<<NoSig(n), NoSig(n)>>, <<AllSig(n), NoSig(n)>>, <<AllSig(n), AllSig(n)>>}

\* jetstream_hugo.stats.field_significance(to_test, da, 100, q=0.01): the
\* outcomes the test can have.  It fails on a sample without a time step; an
\* all-zero sample is significant nowhere.
field_significance(to_test, da_vals) ==
    IF to_test = <<>>
    THEN {Raised("ValueError")}
    ELSE IF \A t \in DOMAIN to_test : \A i \in DOMAIN to_test[t] : to_test[t][i] = 0
    THEN {Returned(<<NoSig(Len(da_vals[1])), NoSig(Len(da_vals[1]))>>)}
    ELSE {Returned(sp) : sp \in SigPairs(Len(da_vals[1]))}

SigOutcomes(n) == {Raised("ValueError")} \cup {Returned(sp) : sp \in SigPairs(n)}

\* The hatching of the significance field of group number i (0-based)
hatch_artist(i, signif, x, y, color, hatch) ==
    [kind |-> "hatch", i |-> i, data |-> signif, lon |-> x, lat |-> y,
     levels |-> 3, hatches |-> <<"", hatch>>, colors |-> "none",
     edgecolor |-> color, linewidth |-> 0]

\* sig[g] is the outcome of field_significance for group g.
add_stippling(ax, da, mask, FDR, color, hatch, sig) ==
    LET to_test == to_test_of(da, mask)
        G == NGroups(mask)
        failed == {g \in 1..G : sig[g].exc # ""}
        significances == [g \in 1..G |-> sig[g].val[IF FDR THEN 2 ELSE 1]]
        frame == [fn |-> "add_stippling", to_test |-> to_test,
                  significances |->
                      IF failed = {} THEN significances ELSE <<>>]
        n == zip_len(Len(ax), G)
        drawn == [p \in DOMAIN ax |->
                    IF p <= n
                    THEN [ax[p] EXCEPT !.drawn = @ \o
                            <<hatch_artist(p - 1, significances[p], da.lon[1], da.lat[1],
                                           color, hatch)>>]
                    ELSE ax[p]]
    IN  IF da.lon = <<>> \/ da.lat = <<>>
        THEN Effect(Raised("AttributeError"), ax, <<>>,
                    <<[frame EXCEPT !.significances = <<>>]>>)
        ELSE IF failed # {}
        THEN Effect(sig[CHOOSE g \in failed : \A h \in failed : g <= h], ax, <<>>, <<frame>>)
        ELSE Effect(Returned(<<>>), drawn, <<>>, <<frame>>)

\* The outcomes of the significance tests of a call
SigChoices(da, mask) ==
    {sig \in [1..NGroups(mask) -> SigOutcomes(Len(da.vals[1]))] :
        \A g \in 1..NGroups(mask) :
            sig[g] \in field_significance(to_test_of(da, mask)[g], da.vals)}

----------------------------------------------------------------------------
(* Clusterplot.add_any_contour_from_mask *)

RECURSIVE Sum(_)
Sum(a) == IF a = <<>> THEN 0 ELSE Head(a) + Sum(Tail(a))

\* da.isel(time=mas).mean(dim="time"); the data values of the model are
\* multiples of 6, so that the mean of one, two or three of them is whole
mean_of(vals) ==
    [i \in DOMAIN vals[1] |-> Sum([t \in DOMAIN vals |-> vals[t][i]]) \div Len(vals)]

\* The field drawn for every group: the mean of its members, or zeros
group_fields(da, mask) ==
    [g \in 1..NGroups(mask) |->
        [dtype |-> "float",
         vals |-> IF IsMemberless(Column(mask, g))
                  THEN Zeros(da)
                  ELSE mean_of(isel(da.vals, Column(mask, g))),
         lon |-> da.lon, lat |-> da.lat]]

WrongType(type) ==
    [exc |-> "ValueError",
     val |-> [text |-> "Wrong type, choose among", type |-> type,
              choices |-> <<"contourf", "contour", "both">>]]

\* kw is the keyword arguments handed on: [levels, clabels, q], clabels being
\* <<>> when the caller gives none.  The result is [eff, cbar].
dispatch_or_contourf(ax, cb, to_plot, type, kw) ==
    IF type = "contour"
    THEN [eff |-> add_contour(ax, to_plot, <<>>, <<>>, kw.levels,
                              IF kw.clabels = <<>> THEN BoolClabels(FALSE) ELSE kw.clabels[1],
                              NoDecor, NoThing, NoThing, kw.q, <<>>),
          cbar |-> cb]
    ELSE IF type = "both"
    THEN add_contourf(ax, cb, to_plot, <<>>, <<>>, kw.levels, DEFAULT_COLORMAP,
                      BoolTransparify(FALSE), TRUE,
                      IF kw.clabels = <<>> THEN NoClabels ELSE kw.clabels[1],
                      NoDecor, TRUE, kw.q)
    ELSE IF kw.clabels # <<>>
    THEN [eff |-> Effect(Raised("TypeError"), ax, <<>>, <<>>), cbar |-> cb]
    ELSE add_contourf(ax, cb, to_plot, <<>>, <<>>, kw.levels, DEFAULT_COLORMAP,
                      BoolTransparify(FALSE), FALSE, NoClabels, NoDecor, TRUE, kw.q)

\* The if / elif / else on `type`
dispatch(ax, cb, to_plot, type, kw) ==
    IF type = "contourf"
    THEN IF kw.clabels # <<>>
         \* clabels=None is passed next to **kwargs: two values for clabels
         THEN [eff |-> Effect(Raised("TypeError"), ax, <<>>, <<>>), cbar |-> cb]
         ELSE add_contourf(ax, cb, to_plot, <<>>, <<>>, kw.levels, DEFAULT_COLORMAP,
                           BoolTransparify(FALSE), FALSE, NoClabels, NoDecor, TRUE, kw.q)
    ELSE IF type = "contour"
    THEN [eff |-> add_contour(ax, to_plot, <<>>, <<>>, kw.levels,
                              IF kw.clabels = <<>> THEN BoolClabels(FALSE) ELSE kw.clabels[1],
                              NoDecor, NoThing, NoThing, kw.q, <<>>),
          cbar |-> cb]
    ELSE IF type = "both"
    THEN add_contourf(ax, cb, to_plot, <<>>, <<>>, kw.levels, DEFAULT_COLORMAP,
                      BoolTransparify(FALSE), TRUE,
                      IF kw.clabels = <<>> THEN NoClabels ELSE kw.clabels[1],
                      NoDecor, TRUE, kw.q)
    ELSE [eff |-> Effect(WrongType(type), ax, <<>>, <<>>), cbar |-> cb]

\* stippling is [kind, b, str]: a bool or the name of a colour
BoolStippling(b) == [kind |-> "bool", b |-> b, str |-> ""]
StrStippling(x) == [kind |-> "str", b |-> FALSE, str |-> x]

\* `if stippling:`
StipplingAsked(stippling) ==
    \/ stippling.kind = "bool" /\ stippling.b
    \/ stippling.kind = "str" /\ stippling.str # ""

add_any_contour_from_mask(ax, cb, da, mask, type, stippling, kw, sig) ==
    LET \* im is only bound by the branches that draw filled contours
        Im(d) == IF type = "contour" THEN <<>> ELSE d.eff.out.val
        Stippled(d, st) ==
            [eff |-> Effect(IF st.out.exc # "" THEN st.out ELSE Returned(Im(d)),
                            st.axes, d.eff.printed \o st.printed,
                            d.eff.frames \o st.frames),
             cbar |-> d.cbar]
        Drawn(d) ==
            IF d.eff.out.exc # ""
            THEN d
            ELSE IF StipplingAsked(stippling)
            THEN Stippled(d, add_stippling(d.eff.axes, da, mask, TRUE,
                                           IF stippling.kind = "str"
                                           THEN stippling.str ELSE "black",
                                           "..", sig))
            ELSE [eff |-> Effect(Returned(Im(d)), d.eff.axes, d.eff.printed, d.eff.frames),
                  cbar |-> d.cbar]
    IN  Drawn(dispatch(ax, cb, group_fields(da, mask), type, kw))

----------------------------------------------------------------------------
(* A call of a drawing method on a Clusterplot *)

FieldCoords == [lon |-> <<Coords("field.lon")>>, lat |-> <<Coords("field.lat")>>]

\* A two-sided DataArray, a one-sided bare array and a boolean DataArray
PlotFields ==
    {[dtype |-> "float", vals |-> [i \in 1..GridSize |-> IF i = 1 THEN -6 ELSE 6],
      lon |-> FieldCoords.lon, lat |-> FieldCoords.lat],
     [dtype |-> "float", vals |-> [i \in 1..GridSize |-> 6 * i],
      lon |-> <<>>, lat |-> <<>>],
     [dtype |-> "bool", vals |-> [i \in 1..GridSize |-> i % 2],
      lon |-> FieldCoords.lon, lat |-> FieldCoords.lat]}

PlotLists == UNION {[1..n -> PlotFields] : n \in 1..MaxPlotFields}

LonLatArgs == {<<(<<>>), (<<>>)>>, <<(<<Coords("lon")>>), (<<Coords("lat")>>)>>}

\* No levels, three levels, and as many levels as a field has columns
PlotLevels ==
    {NoLevels, SeqLevels(<<-6, 0, 6>>), SeqLevels([i \in 1..GridSize |-> 6 * (i - 1)])}

Decors == {NoDecor, [titles |-> <<(<<"a", "b">>)>>, draw_gridlines |-> TRUE]}

\* The style overrides given together: (colors, linestyles)
StyleArgs ==
    {<<NoThing, NoThing>>, <<StrThing("red"), NoThing>>,
     <<ListThing(<<"blue", "grey", "red">>), ListThing(<<"dotted", "dashdot", "solid">>)>>}

AddContourCalls ==
    {[op |-> "add_contour", to_plot |-> tp, lon |-> ll[1], lat |-> ll[2],
      levels |-> lv, clabels |-> cl, decor |-> de, colors |-> st[1],
      linestyles |-> st[2], q |-> q,
      cmap |-> IF de = NoDecor THEN <<>> ELSE <<DEFAULT_COLORMAP>>] :
        tp \in PlotLists, ll \in LonLatArgs, lv \in PlotLevels,
        cl \in {BoolClabels(FALSE), BoolClabels(TRUE), ListClabels(<<0>>)},
        de \in Decors, st \in StyleArgs, q \in {99}}

\* (contours, clabels)
OverlayArgs ==
    {<<FALSE, NoClabels>>, <<TRUE, NoClabels>>, <<FALSE, BoolClabels(TRUE)>>,
     <<FALSE, ListClabels(<<0>>)>>}

AddContourfCalls ==
    {[op |-> "add_contourf", to_plot |-> tp, lon |-> ll[1], lat |-> ll[2],
      levels |-> lv, cmap |-> DEFAULT_COLORMAP, transparify |-> tr,
      contours |-> ov[1], clabels |-> ov[2], decor |-> de,
      draw_cbar |-> (de = NoDecor), q |-> q] :
        tp \in PlotLists, ll \in LonLatArgs, lv \in PlotLevels,
        tr \in {BoolTransparify(FALSE), BoolTransparify(TRUE), IntTransparify(2),
                FloatTransparify(50)},
        ov \in OverlayArgs, de \in Decors, q \in {99, 100}}

\* Time steps: two-sided data and zero data (multiples of 6)
DaSteps == {"two-sided", "zero"}

StepVals(k) ==
    [i \in 1..GridSize |-> IF k = "zero" THEN 0 ELSE IF i = 1 THEN -6 ELSE 6]

\* The data: the first time step of one kind and the others of one kind,
\* with coordinates; and one-sided data without coordinates
Das ==
    {[vals |-> [t \in 1..MaxTime |-> StepVals(IF t = 1 THEN a ELSE b)],
      lon |-> FieldCoords.lon, lat |-> FieldCoords.lat] :
        a \in DaSteps, b \in DaSteps}
    \cup {[vals |-> [t \in 1..MaxTime |-> [i \in 1..GridSize |-> 6 * i]],
           lon |-> <<>>, lat |-> <<>>]}

\* The members of a group: no time step, the first one, or all of them
Memberships ==
    {[t \in 1..MaxTime |-> FALSE], [t \in 1..MaxTime |-> t = 1],
     [t \in 1..MaxTime |-> TRUE]}

\* mask[t][g]: one column of memberships per group
Masks ==
    UNION {{[t \in 1..MaxTime |-> [g \in 1..G |-> cols[g][t]]] :
                cols \in [1..G -> Memberships]} : G \in 1..MaxGroups}

AddStipplingCalls ==
    [op : {"add_stippling"}, da : Das, mask : Masks, FDR : BOOLEAN,
     color : {"black"}, hatch : {".."}]

ContourTypes == {"contourf", "contour", "both", "lines"}

AddAnyCalls ==
    [op : {"add_any_contour_from_mask"}, da : Das, mask : Masks,
     type : ContourTypes,
     stippling : {BoolStippling(FALSE), BoolStippling(TRUE), StrStippling("red")},
     kw : {[levels |-> NoLevels, clabels |-> <<>>, q |-> 99],
           [levels |-> SeqLevels(<<-6, 0, 6>>), clabels |-> <<>>, q |-> 99],
           [levels |-> SeqLevels(<<-6, 0, 6>>), clabels |-> <<BoolClabels(TRUE)>>, q |-> 99]}]

\* The figure before the call: a new Clusterplot, or one on which an earlier
\* add_contourf has drawn a field and a colorbar.
NewAxes(g) == [p \in 1..(g.nrow * g.ncol) |-> NewPanel]
NoCbar == [attr |-> <<>>, onfig |-> 0]

Earlier(g) ==
    add_contourf(NewAxes(g), NoCbar,
                 <<CHOOSE f \in PlotFields : f.dtype = "float" /\ f.lon # <<>>>>,
                 <<>>, <<>>, NoLevels, DEFAULT_COLORMAP, BoolTransparify(FALSE),
                 FALSE, NoClabels, NoDecor, TRUE, 99)

InitPlot ==
    /\ pc = "call"
    /\ call \in AddContourCalls \cup AddContourfCalls \cup AddStipplingCalls
                \cup AddAnyCalls
    /\ ret = Returned(<<>>)
    /\ grid \in [nrow : {1}, ncol : {1, 3}]
    /\ \E fig \in {[eff |-> Effect(Returned(<<>>), NewAxes(grid), <<>>, <<>>),
                    cbar |-> NoCbar],
                   Earlier(grid)} :
          axes = fig.eff.axes /\ cbar = fig.cbar
    /\ artists = <<>>
    /\ stdout = <<>>
    /\ frames = <<>>

\* The call ends with the effect r.eff and self.cbar = r.cbar.
Ends(r) ==
    /\ ret' = r.eff.out
    /\ axes' = r.eff.axes
    /\ cbar' = r.cbar
    /\ stdout' = stdout \o r.eff.printed
    /\ frames' = frames \o r.eff.frames
    /\ pc' = "return"
    /\ UNCHANGED <<call, grid, artists>>

AddContour ==
    /\ pc = "call"
    /\ call.op = "add_contour"
    /\ Ends([eff |-> add_contour(axes, call.to_plot, call.lon, call.lat, call.levels,
                                 call.clabels, call.decor, call.colors,
                                 call.linestyles, call.q, call.cmap),
             cbar |-> cbar])

AddContourf ==
    /\ pc = "call"
    /\ call.op = "add_contourf"
    /\ Ends(add_contourf(axes, cbar, call.to_plot, call.lon, call.lat,
                         call.levels, call.cmap, call.transparify,
                         call.contours, call.clabels, call.decor,
                         call.draw_cbar, call.q))

AddStippling ==
    /\ pc = "call"
    /\ call.op = "add_stippling"
    /\ \E sig \in SigChoices(call.da, call.mask) :
          Ends([eff |-> add_stippling(axes, call.da, call.mask, call.FDR, call.color,
                                      call.hatch, sig),
                cbar |-> cbar])

\* The significance tests run inside add_stippling only.
AddAnyContourFromMask ==
    /\ pc = "call"
    /\ call.op = "add_any_contour_from_mask"
    /\ \E sig \in IF StipplingAsked(call.stippling)
                   THEN SigChoices(call.da, call.mask)
                   ELSE {<<>>} :
          Ends(add_any_contour_from_mask(axes, cbar, call.da, call.mask,
                                         call.type, call.stippling, call.kw, sig))

NextPlot ==
    \/ AddContour
    \/ AddContourf
    \/ AddStippling
    \/ AddAnyContourFromMask

SpecPlot == InitPlot /\ [][NextPlot]_vars

\* C7: add_any_contour_from_mask called with a type other than "contourf",
\* "contour" or "both" fails with a ValueError whose message names the three
\* allowed values, and nothing has been drawn when it fails: the panels, the
\* colorbar and everything else of the figure are as they were before the
\* call, also when stippling was requested.
WrongTypeRejected ==
    [][(/\ pc = "call"
        /\ call.op = "add_any_contour_from_mask"
        /\ call.type \notin {"contourf", "contour", "both"})
       => /\ pc' = "return"
          /\ ret'.exc = "ValueError"
          /\ ret'.val.type = call.type
          /\ ret'.val.choices = <<"contourf", "contour", "both">>
          /\ UNCHANGED <<grid, axes, cbar, artists, stdout, frames>>]_vars

WrongTypeRejectedWitness ==
    /\ pc = "return"
    /\ call.op = "add_any_contour_from_mask"
    /\ call.type = "lines"
    /\ call.stippling = BoolStippling(TRUE)
    /\ call.da.lon # <<>>
    /\ ret.exc = "ValueError"
    /\ cbar.onfig = 1
    /\ \A p \in DOMAIN axes : Len(axes[p].drawn) = (IF p = 1 THEN 1 ELSE 0)
    /\ frames = <<>>

PanelsZipFields ==
    [][(pc = "call" /\ call.op \in {"add_contour", "add_contourf"})
       => LET n == IF Len(axes) <= Len(call.to_plot) THEN Len(axes) ELSE Len(call.to_plot)
              added(p) == SubSeq(axes'[p].drawn, Len(axes[p].drawn) + 1, Len(axes'[p].drawn))
              kind == IF call.op = "add_contour" THEN "contour" ELSE "contourf"
          IN  /\ DOMAIN axes' = DOMAIN axes
              /\ \A p \in DOMAIN axes :
                    /\ Len(axes'[p].drawn) >= Len(axes[p].drawn)
                    /\ SubSeq(axes'[p].drawn, 1, Len(axes[p].drawn)) = axes[p].drawn
                    /\ \A j \in DOMAIN added(p) :
                          /\ added(p)[j].kind \in {"contour", "contourf"}
                          /\ added(p)[j].i = p - 1
                          /\ p <= Len(call.to_plot)
                          /\ added(p)[j].data = call.to_plot[p].vals
                    /\ p > n => added(p) = <<>>
                    /\ (p <= n /\ ret'.exc = "")
                       => /\ added(p) # <<>>
                          /\ added(p)[Len(added(p))].kind = kind
                          /\ Cardinality({j \in DOMAIN added(p) : added(p)[j].kind = kind}) = 1]_vars

PanelsZipFieldsWitness ==
    /\ pc = "return"
    /\ call.op = "add_contourf"
    /\ ret.exc = ""
    /\ Len(call.to_plot) = 2
    /\ call.to_plot[1] # call.to_plot[2]
    /\ Len(axes) = 1
    /\ Len(axes[1].drawn) = 2
    /\ axes[1].drawn[2].kind = "contourf"
    /\ axes[1].drawn[2].i = 0
    /\ axes[1].drawn[2].data = call.to_plot[1].vals

\* The other half of the zip: more panels than fields
PanelsBeyondFields ==
    /\ pc = "return"
    /\ call.op = "add_contour"
    /\ ret.exc = ""
    /\ Len(call.to_plot) = 2
    /\ Len(axes) = 3
    /\ Len(axes[1].drawn) = 2
    /\ axes[2].drawn # <<>>
    /\ axes[3].drawn = <<>>

----------------------------------------------------------------------------
(* create_levels on uniformly distributed data *)

\* A float field whose values take every whole number of -K..K once, in
\* increasing or in decreasing order
UniformField(K, increasing) ==
    [dtype |-> "float",
     vals |-> [i \in 1..(2 * K + 1) |-> IF increasing THEN i - K - 1 ELSE K + 1 - i],
     lon |-> <<Coords("field.lon")>>, lat |-> <<Coords("field.lat")>>]

UniformLists ==
    UNION {[1..n -> {UniformField(K, b) : b \in BOOLEAN}] :
               n \in 1..MaxUniformFields, K \in 1..MaxAmplitude}

UniformCalls ==
    [op : {"create_levels"}, to_plot : UniformLists,
     levels : {NoLevels} \cup {IntLevels(k) : k \in {1, 4, 7}}, q : Quantiles]

InitUniform ==
    /\ pc = "call"
    /\ call \in UniformCalls
    /\ ret = Returned(<<>>)
    /\ NoDrawing

SpecUniform == InitUniform /\ [][NextLevels]_vars

\* The call of the claim: values uniform over -5..5, q = 0.99, levels omitted
UniformFiveCall ==
    /\ call.op = "create_levels"
    /\ \A i \in DOMAIN call.to_plot :
          Len(call.to_plot[i].vals) = 11 /\ Range(call.to_plot[i].vals) = -5..5
    /\ call.q = 99
    /\ call.levels.kind = "none"

\* C12: on a non-boolean field whose values are uniformly distributed over
\* {-5, ..., 5}, with q = 0.99 and no explicit levels, create_levels returns
\* the direction 0, extend "both" and the levels generated for a target of 4:
\* -5, -2.5, 0, 2.5, 5, symmetric around zero, of which the four levels other
\* than zero are the fill levels.
UniformFiveLevels ==
    (pc = "return" /\ UniformFiveCall)
    => /\ ret.exc = ""
       /\ ret.val.direction = <<0>>
       /\ ret.val.extend = "both"
       /\ ~ret.val.tiny
       /\ ret.val.levelsc = <<-5 * Unit, -5 * (Unit \div 2), 0, 5 * (Unit \div 2), 5 * Unit>>
       /\ ret.val.levelscf = <<-5 * Unit, -5 * (Unit \div 2), 5 * (Unit \div 2), 5 * Unit>>
       /\ Len(ret.val.levelscf) = 4
       /\ \A i \in DOMAIN ret.val.levelsc :
             ret.val.levelsc[i] = -ret.val.levelsc[Len(ret.val.levelsc) + 1 - i]

UniformFiveLevelsWitness ==
    /\ pc = "return"
    /\ UniformFiveCall
    /\ Len(call.to_plot) = 2
    /\ call.to_plot[1].vals[1] = -5
    /\ call.to_plot[2].vals[1] = 5
    /\ ret.exc = ""
    /\ ret.val.direction = <<0>>
    /\ Len(ret.val.levelsc) = 5

----------------------------------------------------------------------------
(* The styles of the line contours of two-sided data *)

\* The data of a call is two-sided: not boolean, with values on both sides of
\* zero
TwoSided(to_plot) ==
    /\ to_plot # <<>>
    /\ to_plot[1].dtype # "bool"
    /\ \E i, j \in DOMAIN AllVals(to_plot) :
          AllVals(to_plot)[i] < 0 /\ AllVals(to_plot)[j] > 0

\* The style the claim gives to a drawn level: of a 3-element list the first
\* entry below the centre and the third above it, a scalar everywhere, and
\* the default otherwise
StyleBySide(thing, below, default_below, default_above) ==
    IF thing.tag = "str" THEN thing.str
    ELSE IF thing.tag = "list" /\ Len(thing.list) = 3
    THEN (IF below THEN thing.list[1] ELSE thing.list[3])
    ELSE (IF below THEN default_below ELSE default_above)

\* C13: in add_contour on two-sided data the i-th style goes to the i-th
\* drawn level, and every drawn level below the removed centre level has the
\* style of the 'below' side and every drawn level above it the style of the
\* 'above' side: dashed and solid by default, the first and the third entry of
\* a 3-element list given for colors or linestyles, and a scalar on every
\* drawn level.
StylesBySide ==
    (/\ pc = "return"
     /\ call.op = "add_contour"
     /\ ret.exc = ""
     /\ TwoSided(call.to_plot))
    => \A p \in DOMAIN axes :
          p <= Len(call.to_plot)
          => LET a == axes[p].drawn[Len(axes[p].drawn)]
                 \* the centre removed from the full sequence had as many
                 \* levels before it as the half of the full length
                 nbelow == (Len(a.levels) + 1) \div 2
             IN  /\ a.kind = "contour"
                 /\ a.linestyles.tag = "list"
                 /\ Len(a.linestyles.list) >= Len(a.levels)
                 /\ \A i \in DOMAIN a.levels :
                       /\ a.linestyles.list[i]
                          = StyleBySide(call.linestyles, i <= nbelow, "dashed", "solid")
                       /\ call.cmap = <<>>
                          => /\ a.colors.tag = "list"
                             /\ a.colors.list[i]
                                = StyleBySide(call.colors, i <= nbelow, "black", "black")

\* The case of the divergence is reached: a 3-element list on three levels
\* around zero, of which the level above zero has the style of the centre
StylesBySideDiverges ==
    /\ pc = "return"
    /\ call.op = "add_contour"
    /\ ret.exc = ""
    /\ TwoSided(call.to_plot)
    /\ call.levels.kind = "seq"
    /\ Len(call.levels.seq) = 3
    /\ call.linestyles = ListThing(<<"dotted", "dashdot", "solid">>)
    /\ LET a == axes[1].drawn[Len(axes[1].drawn)]
       IN  /\ Len(a.levels) = 2
           /\ a.linestyles.list[1] = "dotted"
           /\ a.linestyles.list[2] = "dashdot"

----------------------------------------------------------------------------
(* The default number of levels *)

\* The levels MaxNLocator generates for the target n on the data of the call,
\* in the direction d
GeneratedWith(n, d) ==
    LET a == AllVals(call.to_plot)
    IN  tick_values(n, d = <<0>>,
                    IF d = <<1>> THEN 0 ELSE Quantile(a, 100 - call.q),
                    IF d = <<-1>> THEN 0 ELSE Quantile(a, call.q)).ticks

\* C14: with levels omitted on non-boolean data, whatever q in (0, 1] and
\* whatever the inferred direction (negative-only, symmetric, positive-only,
\* undetermined), create_levels returns the levels generated for the target 7
\* when the direction is undetermined and for the target 4 otherwise.
DefaultCount ==
    (/\ LevelsReturned
     /\ call.to_plot[1].dtype # "bool"
     /\ call.levels.kind = "none")
    => /\ ret.exc = ""
       /\ ret.val.levelsc
          = GeneratedWith(IF ret.val.direction = <<>> THEN 7 ELSE 4, ret.val.direction)

\* The case of the divergence is reached: data without a direction and q < 1
DefaultCountDiverges ==
    /\ LevelsReturned
    /\ call.to_plot[1].dtype # "bool"
    /\ call.levels.kind = "none"
    /\ \A i \in DOMAIN AllVals(call.to_plot) : AllVals(call.to_plot)[i] = 0
    /\ call.q = 99
    /\ ret = Raised("KeyError")

----------------------------------------------------------------------------
(* The overlay of line contours on filled contours *)

\* A call of add_contourf that asks for the overlay
OverlayAsked ==
    /\ call.op = "add_contourf"
    /\ call.contours \/ call.clabels.kind # "none"

\* C15: when filled contours are asked for together with an overlay of line
\* contours, add_contour receives the caller's levels as its levels, the
\* caller's clabels request as its clabels and the caller's q as its q, and
\* neither as its lon or lat: the overlay is drawn on the grid of the field.
OverlaySameArguments ==
    (pc = "return" /\ OverlayAsked)
    => \A k \in DOMAIN frames :
          frames[k].fn = "add_contour"
          => /\ frames[k].levels = call.levels
             /\ clabel_of(frames[k].clabels) = clabel_of(call.clabels)
             /\ frames[k].q = call.q
             /\ frames[k].lon = <<>>
             /\ frames[k].lat = <<>>

\* The case of the divergence is reached: the overlay of a call with explicit
\* levels is drawn, with the levels received as lon and none as levels
OverlayDiverges ==
    /\ pc = "return"
    /\ OverlayAsked
    /\ call.contours
    /\ call.levels.kind = "seq"
    /\ ret.exc = ""
    /\ Len(frames) = 1
    /\ frames[1].fn = "add_contour"
    /\ frames[1].lon = <<call.levels>>
    /\ frames[1].levels = NoLevels
    /\ \E p \in DOMAIN axes : \E j \in DOMAIN axes[p].drawn :
          /\ axes[p].drawn[j].kind = "contour"
          /\ axes[p].drawn[j].levels # axes[p].drawn[Len(axes[p].drawn)].levels

====
